---- MODULE Spec2Model ----
(***************************************************************************)
(* FocusSpectrum: the gaze pipeline of src/BackEnd (EyeTracker, the camera *)
(* and the Framework render loop with its scenes).                         *)
(*                                                                         *)
(* Numbers.  Python floats are modelled as exact rationals <<n, d>> kept   *)
(* in lowest terms with d > 0.  Gaze ratios and calibration bounds are     *)
(* integers counting thousandths (0.40 is 400), so the code's threshold    *)
(* 0.01 is 10 and (ratio - left) / (right - left) is the same quotient.    *)
(* Pixel positions (gaze_x, gaze_y, targets) and norm_x, norm_y are        *)
(* rationals.                                                              *)
(***************************************************************************)
EXTENDS Integers, Sequences, FiniteSets, TLC

\* ------------------------------------------------------------------ bounds
\* process_frame calls explored per run (the render loop is unbounded)
MaxFrames == 3
\* clicks beside the flower that a player of Game1Scene makes at most
MaxStrayClicks == 2

\* ------------------------------------------------------- program constants
SCREEN_WIDTH == 1600
SCREEN_HEIGHT == 900
\* thousandths of a ratio: the unit of every ratio and calibration bound
RatioUnit == 1000
\* 0.01 in thousandths: the degenerate-denominator threshold
DegenerateEps == 10
\* self.alpha = 0.15 = 3/20
alpha == <<3, 20>>
\* the Python value None, and an optional value that is present
None == <<>>
Some(v) == <<v>>

\* ------------------------------------------------------ rational arithmetic
Abs(i) == IF i < 0 THEN 0 - i ELSE i

RECURSIVE GCD(_, _)
GCD(a, b) == IF b = 0 THEN a ELSE GCD(b, a % b)

\* the float n / d, d # 0, in lowest terms with a positive denominator
Rat(n, d) ==
    LET g == GCD(Abs(n), Abs(d))
        s == IF d < 0 THEN 0 - 1 ELSE 1
    IN  <<(s * n) \div g, (s * d) \div g>>

FromInt(i) == <<i, 1>>

\* p + q
RAdd(p, q) ==
    LET g == GCD(p[2], q[2])
        l == (p[2] \div g) * q[2]
    IN  Rat(p[1] * (l \div p[2]) + q[1] * (l \div q[2]), l)

\* p - q
RSub(p, q) == RAdd(p, <<0 - q[1], q[2]>>)

\* p * q, cross-reduced before multiplying
RMul(p, q) ==
    LET g1 == GCD(Abs(p[1]), q[2])
        g2 == GCD(Abs(q[1]), p[2])
    IN  Rat((p[1] \div g1) * (q[1] \div g2), (p[2] \div g2) * (q[2] \div g1))

\* p <= q
RLeq(p, q) ==
    LET g == GCD(p[2], q[2])
    IN  p[1] * (q[2] \div g) <= q[1] * (p[2] \div g)

RMin(p, q) == IF RLeq(p, q) THEN p ELSE q
RMax(p, q) == IF RLeq(p, q) THEN q ELSE p
RAbs(p) == <<Abs(p[1]), p[2]>>


\* ------------------------------------------------------------------ inputs
\* A camera frame is modelled by what GazeTracking reports for it:
\* pupils_located and the two ratios (Some(thousandths), or None).
\* CameraFrames are the frames a camera can deliver; NoFrame is the Python
\* value None where a frame is expected.
Frame(located, rx, ry) == [img |-> TRUE, located |-> located, rx |-> rx, ry |-> ry]
NoFrame == [img |-> FALSE, located |-> FALSE, rx |-> None, ry |-> None]

\* (ratio_x, ratio_y) of frames with a face: centred, on the default right
\* and top bounds, on the default left and top bounds, on the default right
\* and bottom bounds, and outside [0,1]
Samples ==
    { <<500, 500>>, <<600, 600>>, <<400, 600>>, <<600, 400>>, <<0 - 200, 1200>> }

DetectedFrames == { Frame(TRUE, Some(s[1]), Some(s[2])) : s \in Samples }

\* no pupils; pupils but no horizontal ratio; pupils but no vertical ratio
DropoutFrames ==
    { Frame(FALSE, None, None), Frame(TRUE, None, Some(500)),
      Frame(TRUE, Some(500), None) }

CameraFrames == DetectedFrames \cup DropoutFrames

\* the frames the camera delivers in the render loop: centred, on a default
\* bound, outside [0,1], and the three dropouts
LoopFrames ==
    { Frame(TRUE, Some(500), Some(500)), Frame(TRUE, Some(600), Some(600)),
      Frame(TRUE, Some(0 - 200), Some(1200)) } \cup DropoutFrames

\* argument tuples of calibrate(left, right, top, bottom): the defaults, equal
\* horizontal bounds, vertical bounds exactly 0.01 apart, inverted bounds
\* outside [0,1]
CalibArgs ==
    { <<400, 600, 600, 400>>,
      <<500, 500, 500, 512>>,
      <<500, 516, 510, 500>>,
      <<1200, 0 - 400, 0 - 400, 1400>> }

\* ----------------------------------------------------------------- tracker
VARIABLES
    gaze_x, gaze_y,            \* EyeTracker.gaze_x, gaze_y (pixels, rationals)
    last_annotated_frame,      \* EyeTracker.last_annotated_frame (None, or the
                               \* annotated copy of a frame, modelled by the frame)
    calib_left, calib_right,   \* EyeTracker.calib_* (thousandths)
    calib_top, calib_bottom,
    pf_calls,                  \* number of process_frame calls made so far
    pf_frame,                  \* argument of the last process_frame call
    pf_return,                 \* its return value
    norm,                      \* <<norm_x, norm_y>> it computed, or None
    target,                    \* <<target_x, target_y>> it computed, or None
    calib_args,                \* arguments of the last calibrate call
    gaze_read,                 \* result of get_gaze_position, while it is the
                               \* tracker call made last
    op,                        \* the tracker method called last
    run,                       \* <<n, T, start>>: the last n detected frames, with
                               \* no dropout or calibrate between them, all had
                               \* target T; start is the gaze before the first
    dropouts,                  \* <<k, pos>>: the last k processed frames gave no
                               \* gaze; pos is the position before the first
    detections,                \* number of frames that gave a gaze so far
    recal                      \* <<k, st>>: the last k tracker calls (k capped at
                               \* 2) were calibrate with the same arguments; st is
                               \* <<bounds, gaze_x, gaze_y>> after the first

tracker ==
    <<gaze_x, gaze_y, last_annotated_frame, calib_left, calib_right, calib_top,
      calib_bottom>>
observed ==
    <<pf_calls, pf_frame, pf_return, norm, target, calib_args, gaze_read, op, run,
      dropouts, detections, recal>>

\* mutant: the default vertical bounds the other way round
TrackerInit_VerticalSwapped ==
    /\ gaze_x = <<800, 1>>
    /\ gaze_y = <<450, 1>>
    /\ last_annotated_frame = <<>>
    /\ calib_left = 400
    /\ calib_right = 600
    /\ calib_top = 400
    /\ calib_bottom = 600

\* EyeTracker.__init__
TrackerInit ==
    /\ gaze_x = Rat(SCREEN_WIDTH, 2)
    /\ gaze_y = Rat(SCREEN_HEIGHT, 2)
    /\ last_annotated_frame = None
    /\ calib_left = 400
    /\ calib_right = 600
    /\ calib_top = 600
    /\ calib_bottom = 400

ObservedInit ==
    /\ pf_calls = 0
    /\ pf_frame = NoFrame
    /\ pf_return = None
    /\ norm = None
    /\ target = None
    /\ calib_args = <<>>
    /\ gaze_read = <<"NoCall">>
    /\ op = "__init__"
    /\ run = <<0, None, None>>
    /\ dropouts = <<0, None>>
    /\ detections = 0
    /\ recal = <<0, None>>

\* if self.gaze.pupils_located: if ratio_x is not None and ratio_y is not None
Detected(f) == f.located /\ f.rx # None /\ f.ry # None

\* mutant: only an exactly zero denominator falls back
MapAxis_ZeroOnly(ratio, lo, hi) ==
    IF hi # lo THEN Rat(ratio - lo, hi - lo) ELSE <<1, 2>>

\* mutant: the quotient taken from the smaller bound, over the distance
MapAxis_Unsigned(ratio, lo, hi) ==
    IF Abs(hi - lo) > DegenerateEps
    THEN Rat(ratio - (IF lo < hi THEN lo ELSE hi), Abs(hi - lo))
    ELSE <<1, 2>>

\* one axis of the mapping, before the clamp
MapAxis(ratio, lo, hi) ==
    IF Abs(hi - lo) > DegenerateEps
    THEN Rat(ratio - lo, hi - lo)
    ELSE <<1, 2>>

\* mutants: the clamp without its lower, and without its upper, bound
Clamp_NoLower(n) == RMin(<<1, 1>>, n)
Clamp_NoUpper(n) == RMax(<<0, 1>>, n)

\* max(0.0, min(1.0, n))
Clamp(n) == RMax(<<0, 1>>, RMin(<<1, 1>>, n))

NormX(f, l, r) == Clamp(MapAxis(f.rx[1], l, r))
NormY(f, t, b) == Clamp(MapAxis(f.ry[1], t, b))

\* mutants: the two weights swapped; the old position not scaled down
Ema_Swapped(tgt, g) == RAdd(RMul(RSub(<<1, 1>>, alpha), tgt), RMul(alpha, g))
Ema_Additive(tgt, g) == RAdd(RMul(alpha, tgt), g)

\* alpha * target + (1 - alpha) * gaze
Ema(tgt, g) == RAdd(RMul(alpha, tgt), RMul(RSub(<<1, 1>>, alpha), g))

\* mutant: a frame without gaze is smoothed like a target of 0
Hold_Decay(g) == RMul(RSub(<<1, 1>>, alpha), g)

\* mutant: a frame without gaze drops the position
Hold_Zero(g) == <<0, 1>>

\* the position process_frame leaves when the frame gives no gaze
Hold(g) == g

\* mutant: no position before the first processed frame
get_gaze_position_NoneFirst ==
    IF pf_calls = 0 THEN None ELSE <<gaze_x, gaze_y>>

\* EyeTracker.get_gaze_position
get_gaze_position == <<gaze_x, gaze_y>>

\* mutant: the arguments clamped to [0, 1] before they are stored
CalibrateBounds_Clamped(l, r, t, b) ==
    LET c(v) == IF v < 0 THEN 0 ELSE IF v > RatioUnit THEN RatioUnit ELSE v
    IN  <<c(l), c(r), c(t), c(b)>>

\* mutant: each bound moves halfway from its old value to the argument
CalibrateBounds_Averaged(l, r, t, b) ==
    <<(calib_left + l) \div 2, (calib_right + r) \div 2,
      (calib_top + t) \div 2, (calib_bottom + b) \div 2>>

\* the bounds calibrate stores: <<left, right, top, bottom>>
CalibrateBounds(l, r, t, b) == <<l, r, t, b>>

\* EyeTracker.process_frame(frame), frame not None; `op` is left to the
\* caller, who may call another tracker method in the same step
\* the calls are counted up to MaxFrames
Counted(n) == IF n < MaxFrames THEN n + 1 ELSE n

process_frame(f) ==
    /\ pf_calls' = Counted(pf_calls)
    /\ pf_frame' = f
    /\ last_annotated_frame' = Some(f)
    /\ recal' = <<0, None>>
    /\ UNCHANGED <<calib_left, calib_right, calib_top, calib_bottom>>
    /\ UNCHANGED calib_args
    /\ gaze_read' = <<"NoCall">>
    /\ IF Detected(f)
       THEN LET nx == NormX(f, calib_left, calib_right)
                ny == NormY(f, calib_top, calib_bottom)
                tx == RMul(nx, FromInt(SCREEN_WIDTH))
                ty == RMul(ny, FromInt(SCREEN_HEIGHT))
            IN  /\ norm' = <<nx, ny>>
                /\ target' = <<tx, ty>>
                /\ gaze_x' = Ema(tx, gaze_x)
                /\ gaze_y' = Ema(ty, gaze_y)
                /\ pf_return' = <<gaze_x', gaze_y'>>
                /\ run' = IF run[1] > 0 /\ run[2] = <<tx, ty>>
                          THEN <<run[1] + 1, run[2], run[3]>>
                          ELSE <<1, <<tx, ty>>, <<gaze_x, gaze_y>>>>
                /\ dropouts' = <<0, None>>
                /\ detections' = detections + 1
       ELSE /\ norm' = None
            /\ target' = None
            /\ gaze_x' = Hold(gaze_x)
            /\ gaze_y' = Hold(gaze_y)
            /\ pf_return' = None
            /\ run' = <<0, None, None>>
            /\ UNCHANGED detections
            /\ dropouts' = IF dropouts[1] > 0
                           THEN <<Counted(dropouts[1]), dropouts[2]>>
                           ELSE <<1, <<gaze_x, gaze_y>>>>

\* mutant: calibrate also puts the smoothed gaze back to the screen centre
calibrate_ResetsGaze(l, r, t, b) ==
    /\ calib_left' = l
    /\ calib_right' = r
    /\ calib_top' = t
    /\ calib_bottom' = b
    /\ calib_args' = <<l, r, t, b>>
    /\ op' = "calibrate"
    /\ gaze_x' = <<800, 1>>
    /\ gaze_y' = <<450, 1>>
    /\ gaze_read' = <<"NoCall">>
    /\ run' = <<0, None, None>>
    /\ recal' = <<1, <<<<l, r, t, b>>, gaze_x', gaze_y'>>>>
    /\ UNCHANGED <<last_annotated_frame, pf_calls, pf_frame, pf_return, norm, target>>
    /\ UNCHANGED <<dropouts, detections>>

\* EyeTracker.calibrate(left_ratio, right_ratio, top_ratio, bottom_ratio)
calibrate(l, r, t, b) ==
    LET new == CalibrateBounds(l, r, t, b)
    IN  /\ calib_left' = new[1]
        /\ calib_right' = new[2]
        /\ calib_top' = new[3]
        /\ calib_bottom' = new[4]
        /\ calib_args' = <<l, r, t, b>>
        /\ op' = "calibrate"
        /\ UNCHANGED <<gaze_x, gaze_y, last_annotated_frame>>
        /\ UNCHANGED <<pf_calls, pf_frame, pf_return, norm, target>>
        /\ gaze_read' = <<"NoCall">>
        /\ run' = <<0, None, None>>
        /\ UNCHANGED <<dropouts, detections>>
        /\ recal' = IF recal[1] > 0 /\ calib_args = <<l, r, t, b>>
                    THEN <<2, recal[2]>>
                    ELSE <<1, <<new, gaze_x, gaze_y>>>>

\* EyeTracker.process_frame(None): cv2.cvtColor raises on the missing image
\* before anything is stored, and nothing in Framework.run catches it
process_frame_None ==
    /\ pf_calls' = pf_calls + 1
    /\ pf_frame' = NoFrame
    /\ op' = "process_frame"
    /\ pf_return' = None
    /\ UNCHANGED tracker
    /\ recal' = <<0, None>>
    /\ UNCHANGED <<norm, target, calib_args, gaze_read, run, dropouts, detections>>

\* ------------------------------------------------- Framework and its scenes
VARIABLES
    pc,                \* where Framework.run stands in its loop
    running,           \* Framework.run's local
    events,            \* the events of this iteration (pygame.event.get())
    scene,             \* Framework.current_scene, by class
    next_scene,        \* current_scene.next_scene (None, or the scene's class)
    cam,               \* CameraManager.current_frame
    iter_cam,          \* get_frame returned a frame in this iteration
    iter_pf,           \* process_frame calls made in this iteration
    iter_read,         \* get_gaze_position was read in this iteration
    iter_late,         \* process_frame was called after such a read
    step,              \* CalibrationScene.step
    start_time,        \* CalibrationScene.start_time is set (not None)
    min_x_ratio,       \* CalibrationScene.min_x_ratio (thousandths)
    max_x_ratio,       \* CalibrationScene.max_x_ratio
    sampled,           \* the horizontal ratios CalibrationScene.update has
                       \* sampled since on_enter
    state,             \* Game1Scene.state
    game_active,       \* Game2Scene.game_active
    game_over,         \* Game2Scene.game_over
    completed_games,   \* Framework.data["completed_games"]
    calls,             \* the scene methods Framework.run has called in this
                       \* iteration, in order, each with the class of the
                       \* scene object it was called on
    entered,           \* on_enter of the current scene object has run
    current_flower_idx, \* Game1Scene.current_flower_idx
    score,             \* Game1Scene.score
    misses,            \* Game1Scene.misses
    timed_out,         \* the flowers Game1Scene.update has timed out
    finished,          \* Game3Scene: the round is over
    scores,            \* Framework.data["scores"], by key
    sample_index,      \* Framework.data["sample_index"], None while absent
    user_id,           \* Framework.data["user_id"]
    shown,             \* ReportScene.scores, None without a ReportScene
    sample_clicks      \* the clicks on See Sample Report so far, modulo 3

iteration == <<iter_cam, iter_pf, iter_read, iter_late>>
calibration == <<step, start_time, min_x_ratio, max_x_ratio, sampled>>
games == <<state, game_active, game_over, completed_games>>
lifecycle == <<calls, entered>>
play == <<current_flower_idx, score, misses, timed_out, finished>>
data == <<scores, sample_index, user_id>>
report == <<shown, sample_clicks>>
loop == <<pc, running, events, scene, next_scene, cam, iteration, calibration, games,
          lifecycle, play, data, report>>
vars == <<tracker, observed, loop>>

\* what pygame.event.get() can return in one iteration: nothing, or one event.
\* A click is named by the rectangle (a button, the current flower of
\* Game1Scene) that contains its position, CLICK_elsewhere lies in none.
\* Events are the keys and clicks that lead to the scenes which drive the
\* tracker; SceneEvents add the other buttons of MenuScene; FlowerEvents are
\* what a player of Game1Scene does.
Events ==
    { "QUIT", "K_ESCAPE", "K_SPACE", "CLICK_skip_btn", "CLICK_start_btn",
      "CLICK_btn_game1", "CLICK_btn_game2", "CLICK_exit_btn" }

SceneEvents ==
    Events \cup { "CLICK_btn_game3", "CLICK_btn_report", "CLICK_btn_sample" }

FlowerEvents ==
    { "K_SPACE", "CLICK_skip_btn", "CLICK_btn_game1", "CLICK_exit_btn",
      "CLICK_flower", "CLICK_elsewhere" }

EventLists == { <<>> } \cup { <<e>> : e \in Events }
SceneEventLists == { <<>> } \cup { <<e>> : e \in SceneEvents }
FlowerEventLists == { <<>> } \cup { <<e>> : e \in FlowerEvents }

Has(evs, e) == \E i \in 1..Len(evs) : evs[i] = e

NoScene == "None"

\* Framework.data["scores"] = {}: no key is present
NoScores == [game1 |-> None, game2 |-> None, game3 |-> None]

\* one call of a method of the current scene, appended to the iteration's log
Called(method) == calls' = Append(calls, <<method, scene>>)

\* Framework.__init__, CameraManager.__init__, and the fields the scene
\* constructors set
LoopInit ==
    /\ pc = "events"
    /\ running = TRUE
    /\ events = <<>>
    /\ scene = "OnboardingScene"
    /\ next_scene = NoScene
    /\ cam = NoFrame
    /\ iter_cam = FALSE
    /\ iter_pf = 0
    /\ iter_read = FALSE
    /\ iter_late = FALSE
    /\ step = 0
    /\ start_time = FALSE
    /\ min_x_ratio = RatioUnit
    /\ max_x_ratio = 0
    /\ sampled = {}
    /\ state = "CALIBRATION"
    /\ game_active = FALSE
    /\ game_over = FALSE
    /\ completed_games = <<>>
    /\ calls = <<>>
    /\ entered = FALSE
    /\ current_flower_idx = 0
    /\ score = 0
    /\ misses = 0
    /\ timed_out = 0
    /\ finished = FALSE
    /\ scores = NoScores
    /\ sample_index = None
    /\ user_id = "guest"
    /\ shown = None
    /\ sample_clicks = 0

Init == TrackerInit /\ ObservedInit /\ LoopInit

\* ------------------------------------------- the tracker driven by any caller
ProcessFrame ==
    /\ pf_calls < MaxFrames
    /\ \E f \in CameraFrames : process_frame(f)
    /\ op' = "process_frame"
    /\ UNCHANGED loop

Calibrate ==
    /\ \E a \in CalibArgs : calibrate(a[1], a[2], a[3], a[4])
    /\ UNCHANGED loop

GetGazePosition ==
    /\ gaze_read' = get_gaze_position
    /\ op' = "get_gaze_position"
    /\ recal' = <<0, None>>
    /\ UNCHANGED tracker
    /\ UNCHANGED <<pf_calls, pf_frame, pf_return, norm, target, calib_args, run,
                   dropouts, detections>>
    /\ UNCHANGED loop

\* mutant: fetching the annotated frame puts the default bounds back
GetAnnotatedFrame_ResetsBounds ==
    /\ op' = "get_annotated_frame"
    /\ recal' = <<0, None>>
    /\ calib_left' = 400 /\ calib_right' = 600
    /\ calib_top' = 600 /\ calib_bottom' = 400
    /\ gaze_read' = <<"NoCall">>
    /\ UNCHANGED <<gaze_x, gaze_y, last_annotated_frame>>
    /\ UNCHANGED <<pf_calls, pf_frame, pf_return, norm, target, calib_args, run,
                   dropouts, detections>>
    /\ UNCHANGED loop

\* EyeTracker.get_annotated_frame returns last_annotated_frame and stores
\* nothing
GetAnnotatedFrame ==
    /\ op' = "get_annotated_frame"
    /\ recal' = <<0, None>>
    /\ UNCHANGED tracker
    /\ UNCHANGED <<pf_calls, pf_frame, pf_return, norm, target, calib_args, run,
                   dropouts, detections>>
    /\ gaze_read' = <<"NoCall">>
    /\ UNCHANGED loop

Next == ProcessFrame \/ Calibrate \/ GetGazePosition \/ GetAnnotatedFrame

Spec == Init /\ [][Next]_vars

\* ---------------------------------------------------------- Framework.run
\* 1. Event Handling: QUIT and ESCAPE clear `running`; the iteration goes on
\* the scene of class sc has the rectangle that names the click e (a key
\* can be pressed in every scene)
Shows(sc, e) ==
    CASE e \in { "CLICK_skip_btn", "CLICK_start_btn" } -> sc = "CalibrationScene"
      [] e \in { "CLICK_btn_game1", "CLICK_btn_game2", "CLICK_btn_game3",
                 "CLICK_btn_report", "CLICK_btn_sample" } -> sc = "MenuScene"
      [] e = "CLICK_exit_btn" -> sc \in { "Game1Scene", "Game2Scene", "Game3Scene" }
      [] e = "CLICK_flower" -> sc = "Game1Scene"
      [] OTHER -> TRUE

Poll(lists) ==
    /\ pc = "events"
    /\ \E evs \in lists :
        /\ \A i \in 1..Len(evs) : Shows(scene, evs[i])
        /\ events' = evs
        /\ running' = (running /\ ~Has(evs, "QUIT") /\ ~Has(evs, "K_ESCAPE"))
    /\ pc' = "camera"
    /\ calls' = <<>>
    /\ UNCHANGED <<tracker, observed, scene, next_scene, cam, iteration, calibration, games>>
    /\ UNCHANGED <<entered, play, data, report>>

PollEvents == Poll(EventLists)

PollSceneEvents == Poll(SceneEventLists)

\* a player of Game1Scene; the clicks that miss the flower are counted up to
\* MaxStrayClicks
PollFlowerEvents ==
    /\ Poll(FlowerEventLists)
    /\ Has(events', "CLICK_elsewhere") => misses - timed_out < MaxStrayClicks

\* CameraManager.get_frame returns None and stores nothing (cap.read failed)
CameraFails ==
    /\ pc = "camera"
    /\ pc' = "handle_events"
    /\ UNCHANGED <<tracker, observed, running, events, scene, next_scene, cam>>
    /\ UNCHANGED <<iteration, calibration, games, lifecycle, play, data, report>>

\* 2. get_frame stores and returns a frame; Framework.run passes it to
\*    process_frame and fetches the annotated frame for the preview
CameraDelivers ==
    /\ pc = "camera"
    /\ pf_calls < MaxFrames
    /\ \E f \in LoopFrames :
        /\ cam' = f
        /\ process_frame(f)
    /\ op' = "get_annotated_frame"
    /\ iter_cam' = TRUE
    /\ iter_pf' = iter_pf + 1
    /\ iter_late' = (iter_late \/ iter_read)
    /\ pc' = "handle_events"
    /\ UNCHANGED <<running, events, scene, next_scene, iter_read, calibration, games>>
    /\ UNCHANGED <<lifecycle, play, data, report>>

\* the same with a camera that sees no face: process_frame holds the gaze,
\* whatever the number of frames
CameraShowsNoFace ==
    /\ pc = "camera"
    /\ cam' = Frame(FALSE, None, None)
    /\ process_frame(cam')
    /\ op' = "get_annotated_frame"
    /\ iter_cam' = TRUE
    /\ iter_pf' = iter_pf + 1
    /\ iter_late' = (iter_late \/ iter_read)
    /\ pc' = "handle_events"
    /\ UNCHANGED <<running, events, scene, next_scene, iter_read, calibration, games>>
    /\ UNCHANGED <<lifecycle, play, data, report>>

\* 3. Scene Logic.  handle_events is the last reader of `events`, which is
\* modelled as consumed by it.
\* OnboardingScene.handle_events
OnboardingOnEvent(st, e) ==
    IF e = "K_SPACE" THEN [st EXCEPT !.next = "CalibrationScene"] ELSE st

\* mutant: SPACE on the intro goes straight to the verify step
CalibrationOnEvent_SkipsSweep(st, e) ==
    IF e = "K_SPACE"
    THEN IF st.step = 0 THEN [st EXCEPT !.step = 2]
         ELSE IF st.step = 2 THEN [st EXCEPT !.next = "MenuScene"]
         ELSE st
    ELSE IF e = "CLICK_skip_btn"
    THEN [st EXCEPT !.next = "MenuScene", !.stop = TRUE]
    ELSE IF e = "CLICK_start_btn" /\ st.step = 2
    THEN [st EXCEPT !.next = "MenuScene"]
    ELSE st

\* CalibrationScene.handle_events
CalibrationOnEvent(st, e) ==
    IF e = "K_SPACE"
    THEN IF st.step = 0 THEN [st EXCEPT !.step = 1]
         ELSE IF st.step = 2 THEN [st EXCEPT !.next = "MenuScene"]
         ELSE st
    ELSE IF e = "CLICK_skip_btn"
    THEN [st EXCEPT !.next = "MenuScene", !.stop = TRUE]
    ELSE IF e = "CLICK_start_btn" /\ st.step = 2
    THEN [st EXCEPT !.next = "MenuScene"]
    ELSE st

\* dict.get(key, default) on an optional value
Get(opt, default) == IF opt = None THEN default ELSE opt[1]

\* len(samples)
NumSamples == 3

\* samples[i]: the i-th sample data set, one entry per game
Sample(i) ==
    [game1 |-> <<"sample", i>>, game2 |-> <<"sample", i>>, game3 |-> <<"sample", i>>]

\* mutant: the sample index is written back without the advance
MenuOnEvent_NoAdvance(st, e) ==
    IF e = "CLICK_btn_game1" THEN [st EXCEPT !.next = "Game1Scene"]
    ELSE IF e = "CLICK_btn_game2" THEN [st EXCEPT !.next = "Game2Scene"]
    ELSE IF e = "CLICK_btn_game3" THEN [st EXCEPT !.next = "Game3Scene"]
    ELSE IF Len(st.completed) >= 3 /\ e = "CLICK_btn_report"
    THEN [st EXCEPT !.next = "ReportScene", !.shown = Some(st.scores)]
    ELSE IF e = "CLICK_btn_sample"
    THEN LET current_idx == Get(st.sample_index, 0)
         IN  [st EXCEPT !.scores = Sample(current_idx),
                        !.sample_index = Some(current_idx),
                        !.next = "ReportScene",
                        !.shown = Some(Sample(current_idx)),
                        !.clicks = (st.clicks + 1) % NumSamples]
    ELSE st

\* MenuScene.handle_events; `completed` is read once, before the loop
MenuOnEvent(st, e) ==
    IF e = "CLICK_btn_game1" THEN [st EXCEPT !.next = "Game1Scene"]
    ELSE IF e = "CLICK_btn_game2" THEN [st EXCEPT !.next = "Game2Scene"]
    ELSE IF e = "CLICK_btn_game3" THEN [st EXCEPT !.next = "Game3Scene"]
    ELSE IF Len(st.completed) >= 3 /\ e = "CLICK_btn_report"
    THEN [st EXCEPT !.next = "ReportScene", !.shown = Some(st.scores)]
    ELSE IF e = "CLICK_btn_sample"
    THEN LET current_idx == Get(st.sample_index, 0)
         IN  [st EXCEPT !.scores = Sample(current_idx),
                        !.sample_index = Some((current_idx + 1) % NumSamples),
                        !.next = "ReportScene",
                        !.shown = Some(Sample(current_idx)),
                        !.clicks = (st.clicks + 1) % NumSamples]
    ELSE st

\* mutant: the id is appended without the membership test
MarkCompleted_Always(done, g) == Append(done, g)

\* if "gameN" not in completed_games: completed_games.append("gameN")
MarkCompleted(done, g) ==
    IF \E i \in 1..Len(done) : done[i] = g THEN done ELSE Append(done, g)

\* len(self.flowers) after on_enter
NumFlowers == 12

\* mutant: a click counts without the test current_flower_idx < len(flowers)
Game1OnEvent_NoBound(st, e) ==
    IF e = "CLICK_exit_btn"
    THEN [st EXCEPT !.next = "MenuScene", !.stop = TRUE]
    ELSE IF e \in { "CLICK_flower", "CLICK_elsewhere" }
    THEN IF st.state = "GAME"
         THEN IF e = "CLICK_flower"
              THEN [st EXCEPT !.score = st.score + 1, !.idx = st.idx + 1]
              ELSE [st EXCEPT !.misses = st.misses + 1]
         ELSE st
    ELSE IF e = "K_SPACE" /\ st.state = "REPORT"
    THEN [st EXCEPT !.completed = MarkCompleted(st.completed, "game1"),
                    !.next = "MenuScene"]
    ELSE st

\* Game1Scene.handle_events
Game1OnEvent(st, e) ==
    IF e = "CLICK_exit_btn"
    THEN [st EXCEPT !.next = "MenuScene", !.stop = TRUE]
    ELSE IF e \in { "CLICK_flower", "CLICK_elsewhere" }
    THEN IF st.state = "GAME" /\ st.idx < NumFlowers
         THEN IF e = "CLICK_flower"
              THEN [st EXCEPT !.score = st.score + 1, !.idx = st.idx + 1]
              ELSE [st EXCEPT !.misses = st.misses + 1]
         ELSE st
    ELSE IF e = "K_SPACE" /\ st.state = "REPORT"
    THEN [st EXCEPT !.completed = MarkCompleted(st.completed, "game1"),
                    !.next = "MenuScene"]
    ELSE st

\* mutant: EXIT counts the game as completed
Game2OnEvent_ExitCompletes(st, e) ==
    IF e = "CLICK_exit_btn"
    THEN [st EXCEPT !.completed = MarkCompleted(st.completed, "game2"),
                    !.next = "MenuScene"]
    ELSE IF e = "K_SPACE"
    THEN IF st.over
         THEN [st EXCEPT !.scores = [st.scores EXCEPT !.game2 = <<"game2">>],
                         !.completed = MarkCompleted(st.completed, "game2"),
                         !.next = "MenuScene"]
         ELSE IF ~st.active THEN [st EXCEPT !.active = TRUE]
         ELSE st
    ELSE st

\* Game2Scene.handle_events
Game2OnEvent(st, e) ==
    IF e = "CLICK_exit_btn"
    THEN [st EXCEPT !.next = "MenuScene"]
    ELSE IF e = "K_SPACE"
    THEN IF st.over
         THEN [st EXCEPT !.scores = [st.scores EXCEPT !.game2 = <<"game2">>],
                         !.completed = MarkCompleted(st.completed, "game2"),
                         !.next = "MenuScene"]
         ELSE IF ~st.active THEN [st EXCEPT !.active = TRUE]
         ELSE st
    ELSE st

\* Game3Scene.handle_events, after its sibling games: EXIT leaves, SPACE
\* after the round records the result and marks the game completed
Game3OnEvent(st, e) ==
    IF e = "CLICK_exit_btn"
    THEN [st EXCEPT !.next = "MenuScene"]
    ELSE IF e = "K_SPACE" /\ st.finished
    THEN [st EXCEPT !.scores = [st.scores EXCEPT !.game3 = <<"game3">>],
                    !.completed = MarkCompleted(st.completed, "game3"),
                    !.next = "MenuScene"]
    ELSE st

\* ReportScene.handle_events
ReportOnEvent(st, e) ==
    IF e = "K_SPACE" \/ e = "K_ESCAPE" THEN [st EXCEPT !.next = "MenuScene"] ELSE st

\* the handler of the scene of class sc, for one event
OnEvent(sc, st, e) ==
    CASE sc = "OnboardingScene" -> OnboardingOnEvent(st, e)
      [] sc = "CalibrationScene" -> CalibrationOnEvent(st, e)
      [] sc = "MenuScene" -> MenuOnEvent(st, e)
      [] sc = "Game1Scene" -> Game1OnEvent(st, e)
      [] sc = "Game2Scene" -> Game2OnEvent(st, e)
      [] sc = "Game3Scene" -> Game3OnEvent(st, e)
      [] sc = "ReportScene" -> ReportOnEvent(st, e)

\* for event in events: the handler's effect on the scene's fields, event by
\* event; st.stop is set by a `return` inside the loop
RECURSIVE ForEvents(_, _, _)
ForEvents(sc, st, evs) ==
    IF evs = <<>> \/ st.stop
    THEN st
    ELSE ForEvents(sc, OnEvent(sc, st, Head(evs)), Tail(evs))

OnboardingHandleEvents ==
    /\ pc = "handle_events"
    /\ scene = "OnboardingScene"
    /\ Called("handle_events")
    /\ next_scene' =
          ForEvents("OnboardingScene", [next |-> next_scene, stop |-> FALSE], events).next
    /\ pc' = "update"
    /\ events' = <<>>
    /\ UNCHANGED <<tracker, observed, running, scene, cam>>
    /\ UNCHANGED <<iteration, calibration, games, entered, play, data, report>>

CalibrationHandleEvents ==
    /\ pc = "handle_events"
    /\ scene = "CalibrationScene"
    /\ Called("handle_events")
    /\ LET st == ForEvents("CalibrationScene",
                           [next |-> next_scene, step |-> step, stop |-> FALSE],
                           events)
       IN  /\ next_scene' = st.next
           /\ step' = st.step
    /\ pc' = "update"
    /\ events' = <<>>
    /\ UNCHANGED <<tracker, observed, running, scene, cam>>
    /\ UNCHANGED <<iteration, start_time, min_x_ratio, max_x_ratio, sampled, games>>
    /\ UNCHANGED <<entered, play, data, report>>

MenuHandleEvents ==
    /\ pc = "handle_events"
    /\ scene = "MenuScene"
    /\ Called("handle_events")
    /\ LET st == ForEvents("MenuScene",
                           [next |-> next_scene, completed |-> completed_games,
                            scores |-> scores, sample_index |-> sample_index,
                            shown |-> shown, clicks |-> sample_clicks,
                            stop |-> FALSE],
                           events)
       IN  /\ next_scene' = st.next
           /\ scores' = st.scores
           /\ sample_index' = st.sample_index
           /\ shown' = st.shown
           /\ sample_clicks' = st.clicks
    /\ pc' = "update"
    /\ events' = <<>>
    /\ UNCHANGED <<tracker, observed, running, scene, cam>>
    /\ UNCHANGED <<iteration, calibration, games, entered, play, user_id>>

Game1HandleEvents ==
    /\ pc = "handle_events"
    /\ scene = "Game1Scene"
    /\ Called("handle_events")
    /\ LET st == ForEvents("Game1Scene",
                           [next |-> next_scene, state |-> state,
                            idx |-> current_flower_idx, score |-> score,
                            misses |-> misses,
                            completed |-> completed_games, stop |-> FALSE],
                           events)
       IN  /\ next_scene' = st.next
           /\ current_flower_idx' = st.idx
           /\ score' = st.score
           /\ misses' = st.misses
           /\ completed_games' = st.completed
    /\ pc' = "update"
    /\ events' = <<>>
    /\ UNCHANGED <<tracker, observed, running, scene, cam>>
    /\ UNCHANGED <<iteration, calibration, state, game_active, game_over>>
    /\ UNCHANGED <<entered, timed_out, finished, data, report>>

Game2HandleEvents ==
    /\ pc = "handle_events"
    /\ scene = "Game2Scene"
    /\ Called("handle_events")
    /\ LET st == ForEvents("Game2Scene",
                           [next |-> next_scene, active |-> game_active,
                            over |-> game_over, completed |-> completed_games,
                            scores |-> scores, stop |-> FALSE],
                           events)
       IN  /\ next_scene' = st.next
           /\ game_active' = st.active
           /\ completed_games' = st.completed
           /\ scores' = st.scores
    /\ pc' = "update"
    /\ events' = <<>>
    /\ UNCHANGED <<tracker, observed, running, scene, cam>>
    /\ UNCHANGED <<iteration, calibration, state, game_over>>
    /\ UNCHANGED <<entered, play, sample_index, user_id, report>>

Game3HandleEvents ==
    /\ pc = "handle_events"
    /\ scene = "Game3Scene"
    /\ Called("handle_events")
    /\ LET st == ForEvents("Game3Scene",
                           [next |-> next_scene, finished |-> finished,
                            completed |-> completed_games,
                            scores |-> scores, stop |-> FALSE],
                           events)
       IN  /\ next_scene' = st.next
           /\ completed_games' = st.completed
           /\ scores' = st.scores
    /\ pc' = "update"
    /\ events' = <<>>
    /\ UNCHANGED <<tracker, observed, running, scene, cam>>
    /\ UNCHANGED <<iteration, calibration, state, game_active, game_over>>
    /\ UNCHANGED <<entered, play, sample_index, user_id, report>>

ReportHandleEvents ==
    /\ pc = "handle_events"
    /\ scene = "ReportScene"
    /\ Called("handle_events")
    /\ next_scene' =
          ForEvents("ReportScene", [next |-> next_scene, stop |-> FALSE], events).next
    /\ pc' = "update"
    /\ events' = <<>>
    /\ UNCHANGED <<tracker, observed, running, scene, cam>>
    /\ UNCHANGED <<iteration, calibration, games, entered, play, data, report>>

\* Scene.update (OnboardingScene, MenuScene) and ReportScene.update: pass
PassUpdate ==
    /\ pc = "update"
    /\ scene \in { "OnboardingScene", "MenuScene", "ReportScene" }
    /\ Called("update")
    /\ pc' = "draw"
    /\ UNCHANGED <<tracker, observed, running, events, scene, next_scene, cam>>
    /\ UNCHANGED <<iteration, calibration, games, entered, play, data, report>>

Min(a, b) == IF a < b THEN a ELSE b

\* mutant: the latest sample instead of the running maximum
Max_Latest(a, b) == b

Max(a, b) == IF a > b THEN a ELSE b

\* mutant: the samples are pushed to the tracker in every step of the scene
CalibrationUpdate_AnyStep ==
    /\ pc = "update"
    /\ scene = "CalibrationScene"
    /\ pc' = "draw"
    /\ IF pf_frame.located /\ pf_frame.rx # None
       THEN /\ min_x_ratio' = Min(min_x_ratio, pf_frame.rx[1])
            /\ max_x_ratio' = Max(max_x_ratio, pf_frame.rx[1])
            /\ sampled' = sampled \cup { pf_frame.rx[1] }
            /\ calibrate(max_x_ratio', min_x_ratio', 150, 850)
       ELSE UNCHANGED <<min_x_ratio, max_x_ratio, sampled, tracker, observed>>
    /\ IF step = 1
       THEN /\ start_time' = TRUE
            /\ \E expired \in BOOLEAN :
                /\ expired => start_time
                /\ step' = IF expired THEN 2 ELSE step
       ELSE UNCHANGED <<step, start_time>>
    /\ Called("update")
    /\ UNCHANGED <<running, events, scene, next_scene, cam, iteration, games>>
    /\ UNCHANGED <<entered, play, data, report>>

\* CalibrationScene.update.  `gaze` is the tracker's GazeTracking object: it
\* reports the frame of the last process_frame call.  The sweep of the red
\* dot (target_pos, target_dir) only feeds draw.  `expired` is the outcome of
\* time.time() - self.start_time > self.duration, false in the update that
\* has just set start_time.
CalibrationUpdate ==
    /\ pc = "update"
    /\ scene = "CalibrationScene"
    /\ pc' = "draw"
    /\ IF step = 1
       THEN /\ start_time' = TRUE
            /\ IF pf_frame.located /\ pf_frame.rx # None
               THEN /\ min_x_ratio' = Min(min_x_ratio, pf_frame.rx[1])
                    /\ max_x_ratio' = Max(max_x_ratio, pf_frame.rx[1])
                    /\ sampled' = sampled \cup { pf_frame.rx[1] }
                    /\ calibrate(max_x_ratio', min_x_ratio', 150, 850)
               ELSE UNCHANGED <<min_x_ratio, max_x_ratio, sampled, tracker, observed>>
            /\ \E expired \in BOOLEAN :
                /\ expired => start_time
                /\ step' = IF expired THEN 2 ELSE step
       ELSE UNCHANGED <<calibration, tracker, observed>>
    /\ Called("update")
    /\ UNCHANGED <<running, events, scene, next_scene, cam, iteration, games>>
    /\ UNCHANGED <<entered, play, data, report>>

\* Game1Scene's state machine in update.  `elapsed` is the outcome of the
\* 5-second test in CALIBRATION; `resolved` says that current_flower_idx has
\* reached len(self.flowers) in GAME.  `timeout` in Game1Update is the
\* outcome of current_time - last_flower_spawn_time > flower_timeout.
Game1State(st, elapsed, resolved) ==
    IF st = "CALIBRATION" THEN (IF elapsed THEN "GAME" ELSE st)
    ELSE IF st = "GAME" THEN (IF resolved THEN "REPORT" ELSE st)
    ELSE st

\* Game1Scene.update when camera.current_frame holds a frame: both hasattr
\* tests are true, and the stored frame goes to process_frame (a frame with
\* a face counts against MaxFrames)
Game1Update ==
    /\ pc = "update"
    /\ scene = "Game1Scene"
    /\ cam.img
    /\ Detected(cam) => pf_calls < MaxFrames
    /\ Called("update")
    /\ process_frame(cam)
    /\ op' = "process_frame"
    /\ iter_pf' = iter_pf + 1
    /\ iter_late' = (iter_late \/ iter_read)
    /\ \E elapsed \in BOOLEAN, timeout \in BOOLEAN :
        /\ state' = Game1State(state, elapsed, current_flower_idx >= NumFlowers)
        /\ IF state = "CALIBRATION"
           THEN /\ current_flower_idx' = IF elapsed THEN 0 ELSE current_flower_idx
                /\ UNCHANGED <<misses, timed_out, scores>>
           ELSE IF state = "GAME" /\ current_flower_idx < NumFlowers
           THEN /\ current_flower_idx' = current_flower_idx + (IF timeout THEN 1 ELSE 0)
                /\ misses' = misses + (IF timeout THEN 1 ELSE 0)
                /\ timed_out' = timed_out + (IF timeout THEN 1 ELSE 0)
                /\ UNCHANGED scores
           ELSE IF state = "GAME"
           THEN /\ scores' = [scores EXCEPT !.game1 = <<"game1", score, misses>>]
                /\ UNCHANGED <<current_flower_idx, misses, timed_out>>
           ELSE UNCHANGED <<current_flower_idx, misses, timed_out, scores>>
    /\ pc' = "draw"
    /\ UNCHANGED <<running, events, scene, next_scene, cam, iter_cam, iter_read>>
    /\ UNCHANGED <<calibration, game_active, game_over, completed_games>>
    /\ UNCHANGED <<entered, score, finished, sample_index, user_id, report>>

\* Game1Scene.update when camera.current_frame is still None: the hasattr
\* tests are true all the same, process_frame(None) raises and ends the run
Game1UpdateRaises ==
    /\ pc = "update"
    /\ scene = "Game1Scene"
    /\ ~cam.img
    /\ pf_calls < MaxFrames
    /\ process_frame_None
    /\ iter_pf' = iter_pf + 1
    /\ iter_late' = (iter_late \/ iter_read)
    /\ pc' = "crashed"
    /\ Called("update")
    /\ UNCHANGED <<running, events, scene, next_scene, cam, iter_cam, iter_read>>
    /\ UNCHANGED <<calibration, games, entered, play, data, report>>

\* Game2Scene.update: the hand provider gets the stored frame only if it is
\* not None; `timeout` is the outcome of time_left <= 0
Game2Update ==
    /\ pc = "update"
    /\ scene = "Game2Scene"
    /\ \E timeout \in BOOLEAN :
        IF game_active /\ timeout
        THEN game_active' = FALSE /\ game_over' = TRUE
        ELSE UNCHANGED <<game_active, game_over>>
    /\ pc' = "draw"
    /\ Called("update")
    /\ UNCHANGED <<tracker, observed, running, events, scene, next_scene, cam>>
    /\ UNCHANGED <<iteration, calibration, state, completed_games>>
    /\ UNCHANGED <<entered, play, data, report>>

\* Game3Scene.update: the round ends at some update
Game3Update ==
    /\ pc = "update"
    /\ scene = "Game3Scene"
    /\ \E ends \in BOOLEAN : finished' = (finished \/ ends)
    /\ pc' = "draw"
    /\ Called("update")
    /\ UNCHANGED <<tracker, observed, running, events, scene, next_scene, cam>>
    /\ UNCHANGED <<iteration, calibration, games>>
    /\ UNCHANGED <<entered, current_flower_idx, score, misses, timed_out, data, report>>

\* CalibrationScene.draw and Game1Scene.draw read the gaze position
GazeDraw ==
    /\ pc = "draw"
    /\ scene \in { "CalibrationScene", "Game1Scene" }
    /\ gaze_read' = get_gaze_position
    /\ op' = "get_gaze_position"
    /\ iter_read' = TRUE
    /\ pc' = "switch"
    /\ recal' = <<0, None>>
    /\ UNCHANGED tracker
    /\ UNCHANGED <<pf_calls, pf_frame, pf_return, norm, target, calib_args, run,
                   dropouts, detections>>
    /\ Called("draw")
    /\ UNCHANGED <<running, events, scene, next_scene, cam>>
    /\ UNCHANGED <<iter_cam, iter_pf, iter_late, calibration, games>>
    /\ UNCHANGED <<entered, play, data, report>>

\* the draw of the other scenes does not use the tracker
PlainDraw ==
    /\ pc = "draw"
    /\ scene \notin { "CalibrationScene", "Game1Scene" }
    /\ pc' = "switch"
    /\ Called("draw")
    /\ UNCHANGED <<tracker, observed, running, events, scene, next_scene, cam>>
    /\ UNCHANGED <<iteration, calibration, games, entered, play, data, report>>

\* mutant: on_enter starts the running minimum at 0.0
SceneFieldsInit_MinZero ==
    /\ step' = 0
    /\ start_time' = FALSE
    /\ min_x_ratio' = 0
    /\ max_x_ratio' = 0
    /\ sampled' = {}
    /\ state' = "CALIBRATION"
    /\ game_active' = FALSE
    /\ game_over' = FALSE
    /\ current_flower_idx' = 0
    /\ score' = 0
    /\ misses' = 0
    /\ timed_out' = 0
    /\ finished' = FALSE

\* the fields a scene's constructor and on_enter set
SceneFieldsInit ==
    /\ step' = 0
    /\ start_time' = FALSE
    /\ min_x_ratio' = RatioUnit
    /\ max_x_ratio' = 0
    /\ sampled' = {}
    /\ state' = "CALIBRATION"
    /\ game_active' = FALSE
    /\ game_over' = FALSE
    /\ current_flower_idx' = 0
    /\ score' = 0
    /\ misses' = 0
    /\ timed_out' = 0
    /\ finished' = FALSE

\* mutant: on_enter of the next scene is called before on_exit of the old one
SwitchScene_EnterFirst ==
    /\ pc = "switch"
    /\ IF next_scene # NoScene
       THEN /\ calls' = calls \o << <<"on_enter", next_scene>>, <<"on_exit", scene>> >>
            /\ scene' = next_scene
            /\ next_scene' = NoScene
            /\ entered' = TRUE
            /\ SceneFieldsInit
            /\ shown' = IF next_scene = "ReportScene" THEN shown ELSE None
       ELSE UNCHANGED <<scene, next_scene, calibration, state, game_active, game_over,
                        lifecycle, play, shown>>
    /\ pc' = IF running THEN "events" ELSE "exited"
    /\ iter_cam' = FALSE
    /\ iter_pf' = 0
    /\ iter_read' = FALSE
    /\ iter_late' = FALSE
    /\ UNCHANGED <<tracker, observed, running, events, cam, completed_games>>
    /\ UNCHANGED <<data, sample_clicks>>

\* Check for scene switch: on_exit (a no-op in every scene) and on_enter of
\* the next scene, a new object whose constructor ran in handle_events; the
\* old scene object is dropped with its fields.  Then flip, tick and the loop
\* test, which ends the iteration.
SwitchScene ==
    /\ pc = "switch"
    /\ IF next_scene # NoScene
       THEN /\ calls' = calls \o << <<"on_exit", scene>>, <<"on_enter", next_scene>> >>
            /\ scene' = next_scene
            /\ next_scene' = NoScene
            /\ entered' = TRUE
            /\ SceneFieldsInit
            /\ shown' = IF next_scene = "ReportScene" THEN shown ELSE None
       ELSE UNCHANGED <<scene, next_scene, calibration, state, game_active, game_over,
                        lifecycle, play, shown>>
    /\ pc' = IF running THEN "events" ELSE "exited"
    /\ iter_cam' = FALSE
    /\ iter_pf' = 0
    /\ iter_read' = FALSE
    /\ iter_late' = FALSE
    /\ UNCHANGED <<tracker, observed, running, events, cam, completed_games>>
    /\ UNCHANGED <<data, sample_clicks>>

NextLoop ==
    \/ PollEvents
    \/ CameraFails
    \/ CameraDelivers
    \/ OnboardingHandleEvents
    \/ CalibrationHandleEvents
    \/ MenuHandleEvents
    \/ Game1HandleEvents
    \/ Game2HandleEvents
    \/ PassUpdate
    \/ CalibrationUpdate
    \/ Game1Update
    \/ Game1UpdateRaises
    \/ Game2Update
    \/ GazeDraw
    \/ PlainDraw
    \/ SwitchScene

SpecLoop == Init /\ [][NextLoop]_vars

\* Framework.run in front of a camera that sees no face, or delivers
\* nothing: every scene, every button of MenuScene, and Framework.data
NextScenes ==
    \/ PollSceneEvents
    \/ CameraFails
    \/ CameraShowsNoFace
    \/ OnboardingHandleEvents
    \/ CalibrationHandleEvents
    \/ MenuHandleEvents
    \/ Game1HandleEvents
    \/ Game2HandleEvents
    \/ Game3HandleEvents
    \/ ReportHandleEvents
    \/ PassUpdate
    \/ CalibrationUpdate
    \/ Game1Update
    \/ Game1UpdateRaises
    \/ Game2Update
    \/ Game3Update
    \/ GazeDraw
    \/ PlainDraw
    \/ SwitchScene

SpecScenes == Init /\ [][NextScenes]_vars

\* the same camera and a player of Game1Scene: the way to Game1Scene and
\* the clicks on and beside its flowers
NextGame1 ==
    \/ PollFlowerEvents
    \/ CameraFails
    \/ CameraShowsNoFace
    \/ OnboardingHandleEvents
    \/ CalibrationHandleEvents
    \/ MenuHandleEvents
    \/ Game1HandleEvents
    \/ PassUpdate
    \/ CalibrationUpdate
    \/ Game1Update
    \/ Game1UpdateRaises
    \/ GazeDraw
    \/ PlainDraw
    \/ SwitchScene

SpecGame1 == Init /\ [][NextGame1]_vars

\* the update in which time.time() - start_time > duration is first true
CalibrationExpires == CalibrationUpdate /\ step = 1 /\ step' = 2

\* Framework.run from its start until CalibrationScene is left: the steps
\* of the loop with OnboardingScene or CalibrationScene current
NextCalibration ==
    \/ PollEvents
    \/ CameraFails
    \/ CameraDelivers
    \/ OnboardingHandleEvents
    \/ CalibrationHandleEvents
    \/ PassUpdate
    \/ CalibrationUpdate
    \/ GazeDraw
    \/ PlainDraw
    \/ SwitchScene

\* The loop keeps iterating: no phase of an iteration blocks (get_frame and
\* clock.tick return), hence weak fairness of each phase.  The wall clock
\* advances by at least a tick per iteration, so of the updates made in
\* step 1 one finds the 5 seconds elapsed: strong fairness of the expiry.
SpecCalibration ==
    /\ Init
    /\ [][NextCalibration]_vars
    /\ WF_vars(PollEvents)
    /\ WF_vars(CameraFails)
    /\ WF_vars(OnboardingHandleEvents)
    /\ WF_vars(CalibrationHandleEvents)
    /\ WF_vars(PassUpdate)
    /\ WF_vars(CalibrationUpdate)
    /\ WF_vars(GazeDraw)
    /\ WF_vars(PlainDraw)
    /\ WF_vars(SwitchScene)
    /\ SF_vars(CalibrationExpires)

\* ------------------------------------------------------------------ claims
Zero == <<0, 1>>
One == <<1, 1>>
Half == <<1, 2>>
Centre == <<FromInt(800), FromInt(450)>>
Bounds == <<calib_left, calib_right, calib_top, calib_bottom>>

\* the last tracker call was process_frame on a frame that gave a gaze
JustMapped == op = "process_frame" /\ pf_frame.img /\ Detected(pf_frame)

\* C1: whatever the ratios and the calibration bounds, the norm_x and norm_y
\* that process_frame computes on a detected frame lie in [0,1], and the
\* targets in [0, SCREEN_WIDTH] and [0, SCREEN_HEIGHT].
C1_NormClamped ==
    norm # None =>
        /\ RLeq(Zero, norm[1]) /\ RLeq(norm[1], One)
        /\ RLeq(Zero, norm[2]) /\ RLeq(norm[2], One)
        /\ RLeq(Zero, target[1]) /\ RLeq(target[1], FromInt(1600))
        /\ RLeq(Zero, target[2]) /\ RLeq(target[2], FromInt(900))

\* ratio (-0.2, 1.2) under the default bounds: both quotients are -3
C1_Witness ==
    /\ JustMapped
    /\ pf_frame.rx = Some(0 - 200) /\ pf_frame.ry = Some(1200)
    /\ Bounds = <<400, 600, 600, 400>>
    /\ norm = <<Zero, Zero>>

\* C2: in every state reached by calibrate calls with any arguments and
\* process_frame calls on any frames, 0 <= gaze_x <= 1600 and
\* 0 <= gaze_y <= 900.
C2_GazeOnScreen ==
    /\ RLeq(Zero, gaze_x) /\ RLeq(gaze_x, FromInt(1600))
    /\ RLeq(Zero, gaze_y) /\ RLeq(gaze_y, FromInt(900))

\* ratio_x 0.6 under left 0.5, right 0.516: the quotient is 6.25
C2_Witness ==
    /\ JustMapped
    /\ pf_frame.rx = Some(600)
    /\ Bounds = <<500, 516, 510, 500>>
    /\ ~RLeq(gaze_x, FromInt(800))

\* C3: after any number of consecutive frames without pupils or with a ratio
\* of None, get_gaze_position() is exactly the position held before the
\* first of them.
C3_HoldLastPosition ==
    dropouts[1] > 0 => get_gaze_position = dropouts[2]

\* two dropout frames in a row after a frame that moved the gaze
C3_Witness ==
    /\ op = "process_frame"
    /\ dropouts[1] >= 2
    /\ dropouts[2] # Centre
    /\ get_gaze_position = dropouts[2]

C5_FrameAlwaysPassed ==
    pf_calls > 0 => pf_frame.img

\* C6: in an iteration of Framework.run in which the camera delivers a
\* frame, process_frame is called exactly once, before every
\* get_gaze_position read of that iteration; the EMA step is never applied
\* twice in one iteration.
C6_OneCallPerFrame ==
    /\ iter_pf <= 1
    /\ ~iter_late
    /\ (pc = "switch" /\ iter_cam) => iter_pf = 1

\* the clamped quotient (ratio - lo) / (hi - lo), hi # lo
LinearClamped(ratio, lo, hi) ==
    LET q == Rat(ratio - lo, hi - lo)
    IN  IF q[1] < 0 THEN Zero ELSE IF q[1] > q[2] THEN One ELSE q

HorizontalDegenerate == Abs(calib_right - calib_left) <= 10
VerticalDegenerate == Abs(calib_bottom - calib_top) <= 10

\* C7: with |calib_right - calib_left| <= 0.01 norm_x is exactly 0.5 for
\* every ratio_x, with |calib_bottom - calib_top| <= 0.01 norm_y is exactly
\* 0.5; an axis whose bounds are not degenerate keeps its linear mapping
\* when the other axis falls back.
C7_DegenerateFallback ==
    JustMapped =>
        /\ HorizontalDegenerate => norm[1] = Half
        /\ VerticalDegenerate => norm[2] = Half
        /\ (HorizontalDegenerate /\ ~VerticalDegenerate) =>
              norm[2] = LinearClamped(pf_frame.ry[1], calib_top, calib_bottom)
        /\ (VerticalDegenerate /\ ~HorizontalDegenerate) =>
              norm[1] = LinearClamped(pf_frame.rx[1], calib_left, calib_right)

\* top 0.51, bottom 0.50 (exactly 0.01 apart) with left 0.5, right 0.516
C7_Witness ==
    /\ JustMapped
    /\ Bounds = <<500, 516, 510, 500>>
    /\ pf_frame.rx = Some(600)
    /\ norm = <<One, Half>>

\* 0.15 * t + 0.85 * g
Weighted(t, g) == RAdd(RMul(<<3, 20>>, t), RMul(<<17, 20>>, g))

\* C8: a process_frame call on a detected frame sets gaze_x to
\* 0.15 * target_x + 0.85 * gaze_x and gaze_y likewise, where the target is
\* the clamped norm scaled to the screen; from (800, 450) a frame with
\* target (1600, 0) gives (920, 382.5).
C8_EmaUpdate ==
    [][ (pf_calls' = pf_calls + 1 /\ Detected(pf_frame')) =>
          /\ target' = <<RMul(norm'[1], FromInt(1600)), RMul(norm'[2], FromInt(900))>>
          /\ gaze_x' = Weighted(target'[1], gaze_x)
          /\ gaze_y' = Weighted(target'[2], gaze_y)
          /\ (<<gaze_x, gaze_y>> = Centre /\ target' = <<FromInt(1600), Zero>>) =>
                <<gaze_x', gaze_y'>> = <<FromInt(920), <<765, 2>>>>
      ]_vars

C8_Witness ==
    /\ JustMapped
    /\ pf_calls = 1
    /\ target = <<FromInt(1600), Zero>>
    /\ get_gaze_position = <<FromInt(920), <<765, 2>>>>

\* d * 0.85^n
RECURSIVE Decayed(_, _)
Decayed(d, n) == IF n = 0 THEN d ELSE Decayed(RMul(<<17, 20>>, d), n - 1)

\* g is n frames into a run from s toward t: the distance is the initial
\* one times 0.85^n, and g has not passed t
Converging(g, t, s, n) ==
    /\ RAbs(RSub(g, t)) = Decayed(RAbs(RSub(s, t)), n)
    /\ RLeq(RAbs(RSub(g, t)), RAbs(RSub(s, t)))
    /\ RLeq(s, t) => RLeq(g, t)
    /\ RLeq(t, s) => RLeq(t, g)

\* C9: after N consecutive detected frames with the same target T the
\* distance of each smoothed coordinate to T is the initial distance times
\* (1 - alpha)^N, it has not grown, and the coordinate has not passed T.
C9_Convergence ==
    run[1] > 0 =>
        /\ Converging(gaze_x, run[2][1], run[3][1], run[1])
        /\ Converging(gaze_y, run[2][2], run[3][2], run[1])

\* three frames in a row toward the corner (1600, 0), from the centre
C9_Witness ==
    /\ run[1] = 3
    /\ run[2] = <<FromInt(1600), Zero>>
    /\ run[3] = Centre

\* C10: after calibrate(left, right, top, bottom) the four bounds are
\* exactly the four arguments, whatever they are and whatever the bounds
\* were.
C10_CalibrateOverwrites ==
    op = "calibrate" => Bounds = calib_args

\* left > right, all four outside [0,1]
C10_Witness ==
    /\ op = "calibrate"
    /\ calib_args = <<1200, 0 - 400, 0 - 400, 1400>>
    /\ Bounds = <<1200, 0 - 400, 0 - 400, 1400>>

\* C11: after two calibrate calls in a row with the same arguments the
\* bounds and the smoothed gaze are those left by the first call, so later
\* frames are mapped the same in both cases.
C11_CalibrateIdempotent ==
    recal[1] = 2 => <<Bounds, gaze_x, gaze_y>> = recal[2]

\* the second of two equal calls, after a frame has moved the gaze
C11_Witness ==
    /\ recal[1] = 2
    /\ calib_args = <<500, 516, 510, 500>>
    /\ Bounds = <<500, 516, 510, 500>>
    /\ detections > 0
    /\ <<gaze_x, gaze_y>> # Centre

DefaultBounds == <<400, 600, 600, 400>>

\* C12: on an axis whose bounds are more than 0.01 apart, in either order,
\* norm is the clamped quotient (ratio - lo) / (hi - lo): ratio_x = left
\* gives norm_x = 0 and ratio_x = right gives 1, ratio_y = top gives
\* norm_y = 0 and ratio_y = bottom gives 1; under the bounds 0.40, 0.60,
\* 0.60, 0.40 the ratio (0.40, 0.60) has norm (0, 0).
C12_LinearMapping ==
    JustMapped =>
        /\ ~HorizontalDegenerate =>
              /\ norm[1] = LinearClamped(pf_frame.rx[1], calib_left, calib_right)
              /\ pf_frame.rx[1] = calib_left => norm[1] = Zero
              /\ pf_frame.rx[1] = calib_right => norm[1] = One
        /\ ~VerticalDegenerate =>
              /\ norm[2] = LinearClamped(pf_frame.ry[1], calib_top, calib_bottom)
              /\ pf_frame.ry[1] = calib_top => norm[2] = Zero
              /\ pf_frame.ry[1] = calib_bottom => norm[2] = One
        /\ (Bounds = DefaultBounds /\ pf_frame.rx[1] = 400 /\ pf_frame.ry[1] = 600) =>
              norm = <<Zero, Zero>>

C12_Witness ==
    /\ JustMapped
    /\ Bounds = <<400, 600, 600, 400>>
    /\ pf_frame.rx = Some(400) /\ pf_frame.ry = Some(600)
    /\ norm = <<Zero, Zero>>

\* C13: while calibrate has not been called the bounds are 0.40, 0.60,
\* 0.60, 0.40; under them the ratio (0.50, 0.50) has norm (0.5, 0.5) and
\* target (800, 450), and a gaze that was at the centre stays there.
C13_DefaultBounds ==
    calib_args = <<>> =>
        /\ Bounds = <<400, 600, 600, 400>>
        /\ (JustMapped /\ pf_frame.rx[1] = 500 /\ pf_frame.ry[1] = 500) =>
              /\ norm = <<Half, Half>>
              /\ target = Centre
              /\ run[3] = Centre => <<gaze_x, gaze_y>> = Centre

\* two centred frames on a tracker that was never calibrated
C13_Witness ==
    /\ calib_args = <<>>
    /\ JustMapped
    /\ pf_frame.rx = Some(500) /\ pf_frame.ry = Some(500)
    /\ run = <<2, Centre, Centre>>
    /\ <<gaze_x, gaze_y>> = Centre

\* the target_x the current bounds give a horizontal ratio
TargetX(ratio) ==
    LET q == IF Abs(calib_right - calib_left) > 10
             THEN Rat(ratio - calib_left, calib_right - calib_left)
             ELSE Half
    IN  RMul(RMax(Zero, RMin(One, q)), FromInt(1600))

RatiosTried == { 0 - 200, 400, 500, 600, 1200 }

\* target_x does not grow with ratio_x under the current bounds
NonIncreasingX ==
    \A r1 \in RatiosTried, r2 \in RatiosTried :
        r1 <= r2 => RLeq(TargetX(r2), TargetX(r1))

\* C14: a higher horizontal ratio (looking further left) never gives a
\* target further right, under the bounds Framework.run maps its frames
\* with: the defaults of __init__ and those pushed by CalibrationScene.
C14_HorizontalDirection ==
    (pc = "handle_events" /\ iter_cam /\ Detected(pf_frame)) =>
        /\ target[1] = TargetX(pf_frame.rx[1])
        /\ NonIncreasingX

\* norm of one axis under bounds lo, hi
ExpectedNorm(ratio, lo, hi) ==
    IF Abs(hi - lo) <= 10 THEN Half ELSE LinearClamped(ratio, lo, hi)

\* C15: a calibrate call, wherever it falls between process_frame calls,
\* leaves gaze_x and gaze_y as they were; a detected frame that comes right
\* after it is mapped with the bounds just given and smoothed from the
\* position held before.
C15_RecalibrationKeepsGaze ==
    [][ /\ op' = "calibrate" => (gaze_x' = gaze_x /\ gaze_y' = gaze_y)
        /\ (op = "calibrate" /\ pf_calls' = pf_calls + 1 /\ Detected(pf_frame')) =>
              /\ norm'[1] = ExpectedNorm(pf_frame'.rx[1], calib_args[1], calib_args[2])
              /\ norm'[2] = ExpectedNorm(pf_frame'.ry[1], calib_args[3], calib_args[4])
              /\ gaze_x' = Weighted(RMul(norm'[1], FromInt(1600)), gaze_x)
              /\ gaze_y' = Weighted(RMul(norm'[2], FromInt(900)), gaze_y)
      ]_vars

\* (920, 382.5) is reached in one frame only under the default bounds; the
\* second frame, ratio (0.6, 0.6), has its target (600, 500) from the
\* inverted bounds given in between
C15_Witness ==
    /\ JustMapped
    /\ pf_calls = 2
    /\ Bounds = <<1200, 0 - 400, 0 - 400, 1400>>
    /\ run = <<1, <<FromInt(600), FromInt(500)>>, <<FromInt(920), <<765, 2>>>>>>
    /\ gaze_x = FromInt(872)

\* C16: the four bounds change only in a calibrate call, to its arguments;
\* process_frame on any frame, get_gaze_position and get_annotated_frame
\* leave them as they are.
C16_BoundsOnlyByCalibrate ==
    [][ /\ Bounds' # Bounds => (op' = "calibrate" /\ Bounds' = calib_args')
        /\ pf_calls' # pf_calls => Bounds' = Bounds
        /\ op' \in { "get_gaze_position", "get_annotated_frame" } => Bounds' = Bounds
      ]_vars

\* non-default bounds that have outlived a detected frame, a dropout frame
\* and a fetch of the annotated frame
C16_Witness ==
    /\ op = "get_annotated_frame"
    /\ Bounds = <<500, 516, 510, 500>>
    /\ calib_args = Bounds
    /\ detections >= 1
    /\ dropouts[1] >= 1

\* C17: as long as no frame has given a gaze, the smoothed gaze is the
\* screen centre (800, 450), whatever dropout frames and calibrate calls
\* there have been.
C17_CentreUntilDetection ==
    detections = 0 => <<gaze_x, gaze_y>> = <<FromInt(800), FromInt(450)>>

\* two dropout frames and a calibrate call, no detection yet
C17_Witness ==
    /\ detections = 0
    /\ pf_calls >= 2
    /\ op = "calibrate"
    /\ Bounds = <<1200, 0 - 400, 0 - 400, 1400>>
    /\ <<gaze_x, gaze_y>> = Centre

Largest(S) == CHOOSE x \in S : \A y \in S : y <= x
Smallest(S) == CHOOSE x \in S : \A y \in S : x <= y

\* C18: in CalibrationScene, once a sample has been taken, calib_left is
\* max_x_ratio and calib_right is min_x_ratio, and these are the largest
\* and the smallest sampled ratio when the samples lie in [0,1]; after a
\* live calibration calib_left >= calib_right; during step 1 min_x_ratio
\* never increases and max_x_ratio never decreases.
C18_RunningExtremes ==
    /\ [](calib_args # <<>> => calib_left >= calib_right)
    /\ []((scene = "CalibrationScene" /\ sampled # {}) =>
            /\ calib_left = max_x_ratio
            /\ calib_right = min_x_ratio
            /\ (\A r \in sampled : 0 <= r /\ r <= 1000) =>
                  /\ max_x_ratio = Largest(sampled)
                  /\ min_x_ratio = Smallest(sampled))
    /\ [][ (scene = "CalibrationScene" /\ scene' = scene /\ step = 1) =>
              (min_x_ratio' <= min_x_ratio /\ max_x_ratio' >= max_x_ratio) ]_vars

\* ratio 0.6 sampled, then 0.5: the running maximum stays at 0.6
C18_Witness ==
    /\ scene = "CalibrationScene"
    /\ sampled = { 500, 600 }
    /\ pf_frame.rx = Some(500)
    /\ calib_left = 600
    /\ calib_right = 500

\* C19: after live calibration calib_top and calib_bottom are the defaults
\* of __init__, 0.60 and 0.40.
C19_VerticalDefaultsKept ==
    calib_args # <<>> => (calib_top = 600 /\ calib_bottom = 400)

\* C20: CalibrationScene.step is 0, 1 or 2; while the scene stays active it
\* changes only from 0 to 1, in handle_events on SPACE, and from 1 to 2, in
\* an update after the one that set start_time; from step 1, step 2 is
\* eventually reached unless the scene is left or the loop ends, with or
\* without a detected face.
C20_StepMachine ==
    /\ [](step \in { 0, 1, 2 })
    /\ [][ (scene = "CalibrationScene" /\ scene' = scene /\ step' # step) =>
              \/ step = 0 /\ step' = 1 /\ pc = "handle_events" /\ Has(events, "K_SPACE")
              \/ step = 1 /\ step' = 2 /\ pc = "update" /\ start_time ]_vars
    /\ (scene = "CalibrationScene" /\ step = 1) ~>
          (step = 2 \/ scene # "CalibrationScene" \/ pc = "exited")

\* the verify step reached without any frame having given a gaze
C20_Witness ==
    /\ scene = "CalibrationScene"
    /\ step = 2
    /\ detections = 0
    /\ calib_args = <<>>

\* ---------------------------------------------------------------- C21
\* C21: CalibrationScene changes the tracker's bounds only in step 1, and
\* only in an update that finds pupils located and a horizontal ratio: a step
\* of the loop that changes one of the four bounds is such an update, and
\* every other step taken while CalibrationScene is current (steps 0 and 2,
\* SKIP, a step-1 update without a detection) leaves the four bounds alone.
C21_BoundsOnlyInSweep ==
    [][ /\ Bounds' # Bounds =>
            /\ scene = "CalibrationScene" /\ pc = "update" /\ step = 1
            /\ pf_frame.located /\ pf_frame.rx # None
        /\ ( /\ scene = "CalibrationScene"
             /\ \/ step # 1
                \/ pc # "update"
                \/ ~(pf_frame.located /\ pf_frame.rx # None) )
           => Bounds' = Bounds ]_vars

\* an update of step 1 has moved the bounds away from the defaults, and the
\* scene has gone on to step 2
C21_Witness ==
    /\ scene = "CalibrationScene"
    /\ step = 2
    /\ Bounds # DefaultBounds
    /\ sampled # {}

\* ---------------------------------------------------------------- C22
\* the first sample CalibrationScene.update takes after on_enter
FirstSample == scene = "CalibrationScene" /\ sampled = {} /\ sampled' # {}

\* a detected frame is processed while CalibrationScene has samples
SweepFrame ==
    /\ scene = "CalibrationScene"
    /\ sampled # {}
    /\ pf_calls' = pf_calls + 1
    /\ Detected(pf_frame')

\* C22: the first sample after on_enter, when it lies in [0,1], pushes
\* calib_left = calib_right; from then on, a detected frame processed while
\* max_x_ratio - min_x_ratio <= 0.01 gets the horizontal target
\* SCREEN_WIDTH/2 and gaze_x does not move away from 800, and a detected
\* frame processed once the spread exceeds 0.01 is mapped linearly between
\* max_x_ratio (left) and min_x_ratio (right).
C22_DegenerateSweep ==
    [][ /\ (FirstSample /\ \A r \in sampled' : 0 <= r /\ r <= RatioUnit) =>
              /\ calib_left' = calib_right'
              /\ sampled' = { calib_left' }
        /\ SweepFrame =>
              IF max_x_ratio - min_x_ratio <= DegenerateEps
              THEN /\ norm'[1] = Half
                   /\ target'[1] = FromInt(SCREEN_WIDTH \div 2)
                   /\ RLeq(RAbs(RSub(gaze_x', FromInt(800))),
                           RAbs(RSub(gaze_x, FromInt(800))))
              ELSE norm'[1] =
                      LinearClamped(pf_frame'.rx[1], max_x_ratio, min_x_ratio)
      ]_vars

\* ratio 0.5 was the only sample, bounds 0.5/0.5; the frame with ratio 0.6
\* that followed got the target 800 and gaze_x, away from 800 before, is
\* still on its way there
C22_Witness ==
    /\ scene = "CalibrationScene"
    /\ sampled = { 500 }
    /\ calib_left = 500 /\ calib_right = 500
    /\ pc = "handle_events"
    /\ pf_frame.rx = Some(600)
    /\ target[1] = FromInt(800)
    /\ gaze_x # FromInt(800)

\* the spread has grown to 0.1 and the next detected frame is mapped linearly
C22_LinearResumed ==
    /\ scene = "CalibrationScene"
    /\ sampled = { 500, 600 }
    /\ pc = "handle_events"
    /\ op = "get_annotated_frame"
    /\ norm # None
    /\ norm[1] # Half

\* ---------------------------------------------------------------- C23
\* the three calls of an iteration, in the order of Framework.run
SceneCalls == <<"handle_events", "update", "draw">>

\* the calls logged at each place of the loop (update has been called when
\* it raises)
CallsAt ==
    [ events |-> {0, 3, 5}, camera |-> {0}, handle_events |-> {0}, update |-> {1},
      draw |-> {2}, switch |-> {3}, exited |-> {3, 5}, crashed |-> {2} ]

\* C23: in every iteration handle_events, update and draw are called in that
\* order on the current scene; if next_scene is set after draw, the same
\* iteration calls on_exit of that scene once, makes next_scene (an object
\* of another class) current and calls its on_enter once; otherwise nothing
\* more is called; every scene that gets a call has been entered, the
\* initial OnboardingScene excepted, and after on_exit a scene gets none.
C23_SceneProtocol ==
    /\ [](LET n == Len(calls)
          IN  /\ n \in CallsAt[pc]
              /\ \A i \in 1..Min(n, 3) :
                    calls[i] = <<SceneCalls[i], calls[1][2]>>
              /\ (n >= 1 /\ n <= 3) =>
                    /\ calls[1][2] = scene
                    /\ entered \/ scene = "OnboardingScene"
              /\ n = 5 =>
                    /\ calls[4] = <<"on_exit", calls[1][2]>>
                    /\ calls[5] = <<"on_enter", scene>>
                    /\ scene # calls[1][2]
                    /\ entered
                    /\ next_scene = NoScene)
    /\ [][ pc = "switch" =>
             IF next_scene # NoScene
             THEN Len(calls') = 5 /\ scene' = next_scene
             ELSE calls' = calls /\ scene' = scene ]_vars
    /\ [][ entered => entered' ]_vars

\* the iteration in which a click on the first game button switched the
\* scene: on_exit of MenuScene, then on_enter of Game1Scene
C23_Witness ==
    /\ pc = "events"
    /\ scene = "Game1Scene"
    /\ calls = << <<"handle_events", "MenuScene">>, <<"update", "MenuScene">>,
                  <<"draw", "MenuScene">>, <<"on_exit", "MenuScene">>,
                  <<"on_enter", "Game1Scene">> >>

\* ---------------------------------------------------------------- C24
GameIds == { "game1", "game2", "game3" }

\* the ids in the list
Completed == { completed_games[i] : i \in 1..Len(completed_games) }

\* MenuScene handles a click on VIEW FINAL REPORT
ReportClick ==
    /\ scene = "MenuScene"
    /\ pc = "handle_events"
    /\ Has(events, "CLICK_btn_report")

Hit ==
    /\ score' = score + 1
    /\ timed_out' = timed_out
    /\ misses' = misses
    /\ pc = "handle_events"

\* the flower at current_flower_idx is resolved by its timeout
TimedOut ==
    /\ timed_out' = timed_out + 1
    /\ misses' = misses + 1
    /\ score' = score
    /\ pc = "update"

\* C25: Game1Scene.state moves only CALIBRATION -> GAME -> REPORT; always
\* 0 <= current_flower_idx <= 12 and current_flower_idx = score + (flowers
\* timed out), hence score <= 12; a step of a Game1Scene raises
\* current_flower_idx by at most one, and then either by a hit (score + 1)
\* or by a timeout (misses + 1), never both; without it score and the
\* timeouts stay; state is REPORT, and scores["game1"] is written with
\* score and misses, only when all 12 flowers are resolved.
C25_FlowerCount ==
    /\ [](/\ state \in { "CALIBRATION", "GAME", "REPORT" }
          /\ 0 <= current_flower_idx /\ current_flower_idx <= NumFlowers
          /\ current_flower_idx = score + timed_out
          /\ score <= NumFlowers
          /\ timed_out <= misses
          /\ state = "REPORT" =>
                /\ current_flower_idx = NumFlowers
                /\ scores.game1 = <<"game1", score, misses>>
          /\ state = "CALIBRATION" => current_flower_idx = 0)
    /\ [][ (scene = "Game1Scene" /\ scene' = scene) =>
             /\ state' # state =>
                   \/ state = "CALIBRATION" /\ state' = "GAME"
                   \/ state = "GAME" /\ state' = "REPORT"
             /\ \/ current_flower_idx' = current_flower_idx + 1 /\ state = "GAME"
                   /\ (Hit \/ TimedOut)
                \/ current_flower_idx' = current_flower_idx
                   /\ score' = score /\ timed_out' = timed_out
             /\ scores' # scores =>
                   /\ state = "GAME" /\ state' = "REPORT"
                   /\ current_flower_idx = NumFlowers ]_vars

\* seven flowers hit, five timed out, one click beside a flower: the report
\* with score 7 and misses 6
C25_Witness ==
    /\ scene = "Game1Scene"
    /\ state = "REPORT"
    /\ score = 7
    /\ timed_out = 5
    /\ misses = 6
    /\ scores.game1 = <<"game1", 7, 6>>

\* ---------------------------------------------------------------- C26
\* the id g is appended to completed_games
Appended(g) == g \notin Completed /\ completed_games' = Append(completed_games, g)

\* the current scene handles SPACE
SpaceIn(sc) == scene = sc /\ pc = "handle_events" /\ Has(events, "K_SPACE")

\* C26: "game1" enters completed_games only by SPACE in Game1Scene while
\* state is REPORT, "game2" only by SPACE in Game2Scene while game_over is
\* true; game_over becomes true only in an update of an active round;
\* handling a click on EXIT leaves completed_games as it is.
C26_CompletedOnlyBySpace ==
    [][ /\ ("game1" \in Completed' /\ "game1" \notin Completed) =>
              (SpaceIn("Game1Scene") /\ state = "REPORT" /\ Appended("game1"))
        /\ ("game2" \in Completed' /\ "game2" \notin Completed) =>
              (SpaceIn("Game2Scene") /\ game_over /\ Appended("game2"))
        /\ (game_over' /\ ~game_over) =>
              (scene = "Game2Scene" /\ pc = "update" /\ game_active /\ ~game_active')
        /\ (pc = "handle_events" /\ Has(events, "CLICK_exit_btn")) =>
              completed_games' = completed_games
        /\ \A i \in 1..Len(completed_games) :
              i <= Len(completed_games') /\ completed_games'[i] = completed_games[i]
      ]_vars

\* both games were finished and left by SPACE
C26_Witness ==
    /\ scene = "MenuScene"
    /\ completed_games = <<"game1", "game2">>
    /\ scores.game1 = <<"game1", 0, 12>>
    /\ scores.game2 = <<"game2">>

\* ---------------------------------------------------------------- C27
\* MenuScene handles a click on See Sample Report
SampleClick ==
    /\ scene = "MenuScene"
    /\ pc = "handle_events"
    /\ Has(events, "CLICK_btn_sample")

\* C27: the k-th click on See Sample Report, with k - 1 = sample_clicks
\* modulo 3, finds sample_index (0 while absent) at (k - 1) mod 3, replaces
\* scores by that sample set, which the ReportScene it opens shows, and
\* moves sample_index on to k mod 3; completed_games and user_id stay, and
\* no entry of scores is a result recorded by a game any more.
C27_SampleCycle ==
    /\ [](IF sample_index = None
          THEN sample_clicks = 0
          ELSE sample_index[1] = sample_clicks /\ sample_index[1] \in 0..2)
    /\ [](user_id = "guest")
    /\ [][ SampleClick =>
             /\ Get(sample_index, 0) = sample_clicks
             /\ scores' = Sample(sample_clicks)
             /\ \A g \in GameIds : scores'[g] = <<"sample", sample_clicks>>
             /\ sample_index' = Some((sample_clicks + 1) % 3)
             /\ next_scene' = "ReportScene"
             /\ shown' = Some(Sample(sample_clicks))
             /\ completed_games' = completed_games
             /\ user_id' = user_id ]_vars

\* game2 was completed, and the third click shows the third sample set in
\* place of its result; the index is back at 0
C27_Witness ==
    /\ scene = "ReportScene"
    /\ completed_games = <<"game2">>
    /\ shown = Some(Sample(2))
    /\ scores = Sample(2)
    /\ sample_index = Some(0)

====
